---------------------------- MODULE Spec2Model ----------------------------
(***************************************************************************)
(* Model of the archeco-recruit publishing scripts:                        *)
(*   - scripts/post-blog.mjs in its two variants (src/unnamed/part_000     *)
(*     with Word support, src/unnamed/part_001 text only),                 *)
(*   - the Slack notification handler (src/unnamed/part_002),              *)
(*   - the microCMS read client (src/src/lib/microcms.ts).                 *)
(*                                                                         *)
(* A JavaScript string is a sequence of characters; a character is a       *)
(* one-token TLA+ string.  Japanese characters are written as romanised    *)
(* tokens ("sha" for the kanji of sha-fuu, "kI" for katakana i, ...): one  *)
(* token per character, the same token wherever the same character occurs. *)
(* An optional value (undefined or a value) is a sequence of length 0 or 1.*)
(***************************************************************************)
EXTENDS Integers, Sequences, FiniteSets, TLC

VARIABLES
    \* ---- image selector (selectBestImage) ----
    fsSize,        \* the file system: path -> size in bytes, -1 when statSync throws
    imagePaths,    \* the argument of selectBestImage
    selDone,       \* selectBestImage has returned
    selResult      \* its result: <<>> for null, <<p>> for path p

selVars == <<fsSize, imagePaths, selDone, selResult>>

VARIABLES
    \* ---- category classifier (detectCategory) ----
    catText,       \* the text to classify
    catFrags,      \* number of fragments catText was built from
    catDone,       \* detectCategory has returned
    catResult      \* its result, <<label>>

catVars == <<catText, catFrags, catDone, catResult>>

VARIABLES
    \* ---- text normaliser (textToHtml) ----
    htmlText,      \* the text to normalise
    htmlFrags,     \* number of fragments htmlText was built from
    htmlDone,      \* textToHtml has returned
    htmlOut        \* its result, the HTML string

htmlVars == <<htmlText, htmlFrags, htmlDone, htmlOut>>

VARIABLES
    \* ---- the publish script (post-blog.mjs), one process ----
    variant,       \* "docx": part_000 (Word support), "text": part_001
    env,           \* process.env after loadEnv: MICROCMS_SERVICE_DOMAIN, MICROCMS_API_KEY
    pc,            \* position of the script
    argv,          \* process.argv.slice(2)
    opts,          \* the result of parseArgs
    doc,           \* rawText and html of the source document
    embeddedLeft,  \* embedded images mammoth has still to convert
    docSrcs,       \* the src the convertImage callback returned for each image
    meta,          \* title, category, description
    bestImage,     \* bestImage of main and whether that file exists
    eyecatch,      \* the uploaded eyecatch url, if any
    eyeOutcome,    \* what the eyecatch upload did, once attempted
    netCalls,      \* the network calls made so far, in order
    exitCode,      \* the exit status once the process has ended
    printed,       \* the record printed by a dry run
    submitted,     \* the record handed to client.create
    created        \* what client.create did, once called

runVars == <<variant, env, pc, argv, opts, doc, embeddedLeft, docSrcs, meta, bestImage,
             eyecatch, eyeOutcome, netCalls, exitCode, printed, submitted, created>>

VARIABLES
    \* ---- the read client (microcms.ts), one module instance ----
    readEnv,       \* import.meta.env: MICROCMS_SERVICE_DOMAIN, MICROCMS_API_KEY
    loaded,        \* the module has been loaded
    client,        \* the exported client is not null
    readLog        \* the calls of getBlogs / getBlogDetail so far

readVars == <<loaded, readEnv, client, readLog>>

VARIABLES
    \* ---- the notification handler, one request at a time ----
    webhookUrl,    \* process.env.SLACK_WEBHOOK_URL
    nPc,           \* position of the handler
    nReq,          \* the request being handled
    nSent,         \* the payloads posted to the webhook for this request
    nResponses,    \* the responses given to this request (status codes)
    nFetch,        \* what the fetch of this request did
    nServed        \* number of requests received

notifyVars == <<webhookUrl, nPc, nReq, nSent, nResponses, nFetch, nServed>>

VARIABLES
    \* ---- title deriver (generateTitle) ----
    titleText,     \* the text the title is derived from
    titleFrags,    \* number of fragments titleText was built from
    titleDone,     \* generateTitle has returned
    titleResult    \* its result

titleVars == <<titleText, titleFrags, titleDone, titleResult>>

vars == <<selVars, catVars, htmlVars, runVars, readVars, notifyVars, titleVars>>

\* the other components are left alone
SelOnly == UNCHANGED <<catVars, htmlVars, runVars, readVars, notifyVars, titleVars>>

CatOnly == UNCHANGED <<selVars, htmlVars, runVars, readVars, notifyVars, titleVars>>

HtmlOnly == UNCHANGED <<selVars, catVars, runVars, readVars, notifyVars, titleVars>>

RunOnly == UNCHANGED <<selVars, catVars, htmlVars, readVars, notifyVars, titleVars>>

ReadOnly == UNCHANGED <<selVars, catVars, htmlVars, runVars, notifyVars, titleVars>>

NotifyOnly == UNCHANGED <<selVars, catVars, htmlVars, runVars, readVars, titleVars>>

TitleOnly == UNCHANGED <<selVars, catVars, htmlVars, runVars, readVars, notifyVars>>

----------------------------------------------------------------------------
(* Bounds of the model *)

MaxPaths == 3
MaxSize == 2
MaxCatFrags == 3
MaxHtmlFrags == 4
MaxEmbedded == 2
MaxReads == 2
MaxRequests == 2
MaxTitleFrags == 4

----------------------------------------------------------------------------
(* Generic string helpers (JavaScript String methods) *)

None == <<>>
Some(v) == <<v>>
IsSome(o) == Len(o) > 0
Get(o) == o[1]

Min(a, b) == IF a <= b THEN a ELSE b

\* s.slice(a, b) with 0-based a (inclusive) and b (exclusive), both within range
Slice(s, a, b) == IF b <= a THEN <<>> ELSE SubSeq(s, a + 1, Min(b, Len(s)))

\* s.slice(a)
SliceFrom(s, a) == Slice(s, a, Len(s))

----------------------------------------------------------------------------
(* Image selector *)

\* candidate image paths (one-character names)
Paths == {<<"a">>, <<"b">>, <<"c">>}
Missing == -1
Sizes == {Missing} \cup (0 .. MaxSize)

\* fs.statSync(p): throws when the file is missing, else gives size
StatThrows(fs, p) == fs[p] = Missing

\* the for-loop of selectBestImage from index i with the running best/bestSize
RECURSIVE SelectScan(_, _, _, _, _)
SelectScan(fs, ps, i, best, bestSize) ==
    IF i > Len(ps) THEN best
    ELSE IF StatThrows(fs, ps[i]) THEN SelectScan(fs, ps, i + 1, best, bestSize)
    ELSE IF fs[ps[i]] > bestSize
         THEN SelectScan(fs, ps, i + 1, ps[i], fs[ps[i]])
         ELSE SelectScan(fs, ps, i + 1, best, bestSize)

\* mutant: the comparison >= instead of > (last maximum wins)
RECURSIVE SelectScanGe(_, _, _, _, _)
SelectScanGe(fs, ps, i, best, bestSize) ==
    IF i > Len(ps) THEN best
    ELSE IF StatThrows(fs, ps[i]) THEN SelectScanGe(fs, ps, i + 1, best, bestSize)
    ELSE IF fs[ps[i]] >= bestSize
         THEN SelectScanGe(fs, ps, i + 1, ps[i], fs[ps[i]])
         ELSE SelectScanGe(fs, ps, i + 1, best, bestSize)

selectBestImageGe(fs, ps) ==
    IF Len(ps) = 0 THEN None
    ELSE IF Len(ps) = 1 THEN Some(ps[1])
    ELSE Some(SelectScanGe(fs, ps, 1, ps[1], 0))

selectBestImage(fs, ps) ==
    IF Len(ps) = 0 THEN None
    ELSE IF Len(ps) = 1 THEN Some(ps[1])
    ELSE Some(SelectScan(fs, ps, 1, ps[1], 0))

SelInit ==
    /\ fsSize \in [Paths -> Sizes]
    /\ imagePaths = <<>>
    /\ selDone = FALSE
    /\ selResult = None

SelIdle ==
    /\ fsSize = [p \in Paths |-> Missing]
    /\ imagePaths = <<>>
    /\ selDone = TRUE
    /\ selResult = None

\* the caller collects one more path (parseArgs: opts.images.push)
AddPath(p) ==
    /\ ~selDone
    /\ Len(imagePaths) < MaxPaths
    /\ imagePaths' = Append(imagePaths, p)
    /\ UNCHANGED <<fsSize, selDone, selResult>>
    /\ SelOnly

\* selectBestImage(imagePaths)
Select ==
    /\ ~selDone
    /\ selResult' = selectBestImage(fsSize, imagePaths)
    /\ selDone' = TRUE
    /\ UNCHANGED <<fsSize, imagePaths>>
    /\ SelOnly

----------------------------------------------------------------------------
(* Category classifier *)

\* String.prototype.toLowerCase on the characters of the model's alphabet that
\* have a case (the i flag of the keyword regex)
Lower(c) == CASE c = "Q" -> "q" [] c = "A" -> "a" [] OTHER -> c

\* kw matches text at 1-based position i, ignoring case
MatchesAt(text, kw, i) ==
    /\ i + Len(kw) - 1 <= Len(text)
    /\ \A k \in 1 .. Len(kw) : Lower(text[i + k - 1]) = Lower(kw[k])

\* text.match(new RegExp(kw, 'gi')).length: the matches a global regex finds,
\* scanning left to right and resuming after the end of each match
RECURSIVE CountMatches(_, _, _)
CountMatches(text, kw, i) ==
    IF i + Len(kw) - 1 > Len(text) THEN 0
    ELSE IF MatchesAt(text, kw, i)
         THEN 1 + CountMatches(text, kw, i + Len(kw))
         ELSE CountMatches(text, kw, i + 1)

\* the four labels: intabyuu, shafuu, seido, ibento
CATEGORIES ==
    << <<"kI", "kN", "kTA", "kBI", "kyu", "k-">>,
       <<"sha", "fuu">>,
       <<"sei", "do">>,
       <<"kI", "kBE", "kN", "kTO">> >>

\* CATEGORY_KEYWORDS[i]: the keywords of CATEGORIES[i], in the order of the
\* object literal
CATEGORY_KEYWORDS ==
    <<  << <<"kI", "kN", "kTA", "kBI", "kyu", "k-">>,            \* intabyuu
           <<"kiku", "hi", "hte">>,                               \* kiite
           <<"hanashi", "hwo">>,                                  \* hanashi wo
           <<"Q", "&", "A">>,                                     \* Q&A
           <<"shitsu", "mon">>,                                   \* shitsumon
           <<"nyuu", "sha", "ri", "yuu">>,                        \* nyuusha riyuu
           <<"ichi", "nichi", "hno", "ryuu", "hre">>,             \* ichinichi no nagare
           <<"sen", "pai">>,                                      \* senpai
           <<"sha", "in", "shou", "kai_">> >>,                    \* shain shoukai
        << <<"sha", "fuu">>,                                      \* shafuu
           <<"fun", "i_", "ki">>,                                 \* fun'iki
           <<"kKA", "kRU", "kCHI", "kya", "k-">>,                 \* karuchaa
           <<"bun", "ka">>,                                       \* bunka
           <<"kCHI", "k-", "kMU">>,                               \* chiimu
           <<"shoku", "ba">>,                                     \* shokuba
           <<"kO", "kFU", "ki_", "kSU">>,                         \* ofisu
           <<"hatara", "hki", "kata">>,                           \* hatarakikata
           <<"kKO", "kMI", "kyu", "kNI", "kKE", "k-", "kSHI", "kyo", "kN">> >>,
        << <<"sei", "do">>,                                       \* seido
           <<"fuku", "ri_", "kou", "sei_">>,                      \* fukurikousei
           <<"ken", "shuu">>,                                     \* kenshuu
           <<"hyou", "ka_">>,                                     \* hyouka
           <<"kyuu", "ka__">>,                                    \* kyuuka
           <<"te", "ate">>,                                       \* teate
           <<"kKI", "kya", "kRI", "kA">>,                         \* kyaria
           <<"kyou", "iku">>,                                     \* kyouiku
           <<"shi", "en">> >>,                                    \* shien
        << <<"kI", "kBE", "kN", "kTO">>,                          \* ibento
           <<"kon", "shin", "kai">>,                              \* konshinkai
           <<"ben", "kyou_", "kai">>,                             \* benkyoukai
           <<"kSE", "kMI", "kNA", "k-">>,                         \* seminaa
           <<"kou_", "ryuu">>,                                    \* kouryuu
           <<"kai__", "sai">>,                                    \* kaisai
           <<"san", "ka___">>,                                    \* sanka
           <<"kHA", "ktsu", "kKA", "kSO", "kN">>,                 \* hakkason
           <<"bou", "nen", "kai">> >> >>                          \* bounenkai

\* the sum over the keywords kws of their match counts in text
RECURSIVE SumMatches(_, _, _)
SumMatches(text, kws, k) ==
    IF k > Len(kws) THEN 0
    ELSE CountMatches(text, kws[k], 1) + SumMatches(text, kws, k + 1)

\* scores[CATEGORIES[i]]
Score(text, i) == SumMatches(text, CATEGORY_KEYWORDS[i], 1)

\* Object.entries(CATEGORY_KEYWORDS): string keys in insertion order, which is
\* the order of CATEGORIES
RECURSIVE BestScan(_, _, _, _)
BestScan(text, i, best, bestScore) ==
    IF i > Len(CATEGORIES) THEN best
    ELSE IF Score(text, i) > bestScore
         THEN BestScan(text, i + 1, CATEGORIES[i], Score(text, i))
         ELSE BestScan(text, i + 1, best, bestScore)

\* mutant: >= instead of > (the last label of the highest score wins)
RECURSIVE BestScanGe(_, _, _, _)
BestScanGe(text, i, best, bestScore) ==
    IF i > Len(CATEGORIES) THEN best
    ELSE IF Score(text, i) >= bestScore
         THEN BestScanGe(text, i + 1, CATEGORIES[i], Score(text, i))
         ELSE BestScanGe(text, i + 1, best, bestScore)

detectCategoryGe(text) == BestScanGe(text, 1, CATEGORIES[1], 0)

detectCategory(text) == BestScan(text, 1, CATEGORIES[1], 0)

\* pieces the classified texts are made of: keywords of each label (one of
\* them in lower case, one shared character run) and neutral characters
CatFragments ==
    { <<"Q", "&", "A">>, <<"q", "&", "a">>, <<"sha", "fuu">>, <<"sei", "do">>,
      <<"ken", "shuu">>, <<"kI", "kBE", "kN", "kTO">>, <<"san", "ka___">>,
      <<"sha">>, <<"x">>, <<"\n">> }

CatInit ==
    /\ catText = <<>>
    /\ catFrags = 0
    /\ catDone = FALSE
    /\ catResult = None

CatIdle ==
    /\ catText = <<>>
    /\ catFrags = 0
    /\ catDone = TRUE
    /\ catResult = None

\* the document grows by one fragment
CatAppend(f) ==
    /\ ~catDone
    /\ catFrags < MaxCatFrags
    /\ catText' = catText \o f
    /\ catFrags' = catFrags + 1
    /\ UNCHANGED <<catDone, catResult>>
    /\ CatOnly

\* detectCategory(catText)
CatDetect ==
    /\ ~catDone
    /\ catResult' = Some(detectCategory(catText))
    /\ catDone' = TRUE
    /\ UNCHANGED <<catText, catFrags>>
    /\ CatOnly

----------------------------------------------------------------------------
(* Text normaliser: textToHtml *)

\* \s of the regexes and the white space of trim/trimEnd, on the model's alphabet
IsSpace(c) == c \in {" ", "\t"}

\* s.trimEnd()
RECURSIVE TrimEnd(_)
TrimEnd(s) ==
    IF Len(s) > 0 /\ IsSpace(s[Len(s)]) THEN TrimEnd(SubSeq(s, 1, Len(s) - 1)) ELSE s

\* s.trimStart()
RECURSIVE TrimStart(_)
TrimStart(s) ==
    IF Len(s) > 0 /\ IsSpace(s[1]) THEN TrimStart(Tail(s)) ELSE s

\* s.trim()
Trim(s) == TrimStart(TrimEnd(s))

\* text.split('\n') from 1-based position i on: always at least one line
\* (one step per line, so that long lines stay within the evaluator's stack)
RECURSIVE SplitFrom(_, _)
SplitFrom(text, i) ==
    LET nl == {j \in i .. Len(text) : text[j] = "\n"}
    IN  IF nl = {} THEN <<SubSeq(text, i, Len(text))>>
        ELSE LET j == CHOOSE j \in nl : \A k \in nl : j <= k
             IN  <<SubSeq(text, i, j - 1)>> \o SplitFrom(text, j + 1)

SplitLines(text) == SplitFrom(text, 1)

\* parts.join(sep)
RECURSIVE Join(_, _)
Join(parts, sep) ==
    IF Len(parts) = 0 THEN <<>>
    ELSE IF Len(parts) = 1 THEN parts[1]
    ELSE parts[1] \o sep \o Join(Tail(parts), sep)

StartsWith(s, pre) == Len(s) >= Len(pre) /\ SubSeq(s, 1, Len(pre)) = pre

\* number of white-space characters of s from 1-based position i on
RECURSIVE SpaceRun(_, _)
SpaceRun(s, i) == IF i <= Len(s) /\ IsSpace(s[i]) THEN 1 + SpaceRun(s, i + 1) ELSE 0

\* line.match(/^<pre>\s+(.+)/): the captured group, or None.  \s+ is greedy and
\* gives one character back when nothing is left for (.+).
MatchMarker(line, pre) ==
    IF ~StartsWith(line, pre) THEN None
    ELSE LET ws == SpaceRun(line, Len(pre) + 1)
             rest == SliceFrom(line, Len(pre) + ws)
         IN  IF ws = 0 THEN None
             ELSE IF Len(rest) > 0 THEN Some(rest)
             ELSE IF ws >= 2 THEN Some(SliceFrom(line, Len(pre) + ws - 1))
             ELSE None

\* line.match(/^[-*]\s+(.+)/)
MatchListItem(line) ==
    IF IsSome(MatchMarker(line, <<"-">>)) THEN MatchMarker(line, <<"-">>)
    ELSE MatchMarker(line, <<"*">>)

\* s.replace(/c/g, rep) for a single character c
RECURSIVE ReplaceAll(_, _, _)
ReplaceAll(s, c, rep) ==
    IF Len(s) = 0 THEN <<>>
    ELSE (IF s[1] = c THEN rep ELSE <<s[1]>>) \o ReplaceAll(Tail(s), c, rep)

AMP == <<"&", "a", "m", "p", ";">>
LT == <<"&", "l", "t", ";">>
GT == <<"&", "g", "t", ";">>

\* mutant: & is replaced last, after the entities of < and > were produced
escAmpLast(s) == ReplaceAll(ReplaceAll(ReplaceAll(s, "<", LT), ">", GT), "&", AMP)

\* esc(s): & first, then <, then >
esc(s) == ReplaceAll(ReplaceAll(ReplaceAll(s, "&", AMP), "<", LT), ">", GT)

UL_OPEN == <<"<", "u", "l", ">">>
UL_CLOSE == <<"<", "/", "u", "l", ">">>

\* `<tag>${inner}</tag>` for a two- or one-character tag name
Element(tag, inner) == <<"<">> \o tag \o <<">">> \o inner \o <<"<", "/">> \o tag \o <<">">>

\* mutant: closeList that forgets to emit the close marker
closeListSilent(st) == [st EXCEPT !.inList = FALSE]

\* closeList(): st is the loop state [html, inList]
closeList(st) ==
    IF st.inList THEN [html |-> Append(st.html, UL_CLOSE), inList |-> FALSE] ELSE st

Push(st, el) == [st EXCEPT !.html = Append(@, el)]

\* mutant: a list item opens a block even when one is open
openListAlways(st) == [html |-> Append(st.html, UL_OPEN), inList |-> TRUE]

\* if (!inList) { html.push('<ul>'); inList = true; }
openList(st) ==
    IF st.inList THEN st ELSE [html |-> Append(st.html, UL_OPEN), inList |-> TRUE]

\* one iteration of the for-loop of textToHtml
HtmlLine(st, raw) ==
    LET line == TrimEnd(raw)
        h3 == MatchMarker(line, <<"#", "#", "#">>)
        h2 == MatchMarker(line, <<"#", "#">>)
        h1 == MatchMarker(line, <<"#">>)
        li == MatchListItem(line)
    IN  IF IsSome(h3) THEN Push(closeList(st), Element(<<"h", "3">>, esc(Get(h3))))
        ELSE IF IsSome(h2) THEN Push(closeList(st), Element(<<"h", "2">>, esc(Get(h2))))
        ELSE IF IsSome(h1) THEN Push(closeList(st), Element(<<"h", "1">>, esc(Get(h1))))
        ELSE IF IsSome(li)
             THEN Push(openList(st), Element(<<"l", "i">>, esc(Get(li))))
        ELSE IF Trim(line) = <<>> THEN closeList(closeList(st))
        ELSE Push(closeList(st), Element(<<"p">>, esc(line)))

RECURSIVE HtmlLoop(_, _, _)
HtmlLoop(st, lines, i) ==
    IF i > Len(lines) THEN st ELSE HtmlLoop(HtmlLine(st, lines[i]), lines, i + 1)

\* the html array of textToHtml after the loop and the final closeList()
textToHtmlElements(text) ==
    closeList(HtmlLoop([html |-> <<>>, inList |-> FALSE], SplitLines(text), 1)).html

\* textToHtml(text)
textToHtml(text) == Join(textToHtmlElements(text), <<"\n">>)

\* pieces the normalised texts are made of; the last one is a whole list-item
\* line, so that short texts hold several items in a row
HtmlFragments ==
    { <<"#">>, <<"#", " ">>, <<"-", " ">>, <<"*", " ">>, <<"\n">>, <<"a">>, <<" ">>,
      <<"&">>, UL_OPEN, UL_CLOSE, <<"-", " ", "a", "\n">> }

HtmlInit ==
    /\ htmlText = <<>>
    /\ htmlFrags = 0
    /\ htmlDone = FALSE
    /\ htmlOut = <<>>

HtmlIdle ==
    /\ htmlText = <<>>
    /\ htmlFrags = 0
    /\ htmlDone = TRUE
    /\ htmlOut = <<>>

\* the document grows by one fragment
HtmlAppend(f) ==
    /\ ~htmlDone
    /\ htmlFrags < MaxHtmlFrags
    /\ htmlText' = htmlText \o f
    /\ htmlFrags' = htmlFrags + 1
    /\ UNCHANGED <<htmlDone, htmlOut>>
    /\ HtmlOnly

\* textToHtml(htmlText)
HtmlNormalize ==
    /\ ~htmlDone
    /\ htmlOut' = textToHtml(htmlText)
    /\ htmlDone' = TRUE
    /\ UNCHANGED <<htmlText, htmlFrags>>
    /\ HtmlOnly

----------------------------------------------------------------------------
(* Metadata derivers: generateTitle, generateDescription *)

TITLE_MAX == 60
TITLE_KEEP == 57
DESC_MAX == 120
DESC_KEEP == 117

ELLIPSIS == <<".", ".", ".">>

\* the placeholder title (mudai no kiji)
UNTITLED == <<"mu", "dai", "hno", "ki__", "ji">>

\* text.split('\n').filter((l) => l.trim().length > 0)
NonBlankLines(text) == SelectSeq(SplitLines(text), LAMBDA l : Len(Trim(l)) > 0)

\* number of leading # characters of s from 1-based position i on
RECURSIVE HashRun(_, _)
HashRun(s, i) == IF i <= Len(s) /\ s[i] = "#" THEN 1 + HashRun(s, i + 1) ELSE 0

\* s.replace(/^#+\s*/, '')
StripHeading(s) ==
    LET h == HashRun(s, 1)
    IN  IF h = 0 THEN s ELSE SliceFrom(s, h + SpaceRun(s, h + 1))

\* mutant: a title of exactly TITLE_MAX characters is cut too
generateTitleGe(text) ==
    LET lines == NonBlankLines(text)
        title == Trim(StripHeading(lines[1]))
    IN  IF Len(lines) = 0 THEN UNTITLED
        ELSE IF Len(title) >= TITLE_MAX THEN Slice(title, 0, TITLE_KEEP) \o ELLIPSIS
        ELSE title

\* generateTitle(text)
generateTitle(text) ==
    LET lines == NonBlankLines(text)
        title == Trim(StripHeading(lines[1]))
    IN  IF Len(lines) = 0 THEN UNTITLED
        ELSE IF Len(title) > TITLE_MAX THEN Slice(title, 0, TITLE_KEEP) \o ELLIPSIS
        ELSE title

\* a run of letters half as long as the longest title kept whole
LongRun == [k \in 1 .. (TITLE_MAX \div 2) |-> "A"]

\* pieces the texts given to generateTitle are made of
TitleFragments == { <<"#">>, <<" ">>, <<"\n">>, <<"a">>, LongRun }

TitleInit ==
    /\ titleText = <<>>
    /\ titleFrags = 0
    /\ titleDone = FALSE
    /\ titleResult = <<>>

TitleIdle ==
    /\ titleText = <<>>
    /\ titleFrags = 0
    /\ titleDone = TRUE
    /\ titleResult = <<>>

\* the text grows by one fragment
TitleAppend(f) ==
    /\ ~titleDone
    /\ titleFrags < MaxTitleFrags
    /\ titleText' = titleText \o f
    /\ titleFrags' = titleFrags + 1
    /\ UNCHANGED <<titleDone, titleResult>>
    /\ TitleOnly

\* generateTitle(titleText)
TitleDerive ==
    /\ ~titleDone
    /\ titleResult' = generateTitle(titleText)
    /\ titleDone' = TRUE
    /\ UNCHANGED <<titleText, titleFrags>>
    /\ TitleOnly

\* s.replace(/\s+/g, ' ')
RECURSIVE CollapseSpaces(_)
CollapseSpaces(s) ==
    IF Len(s) = 0 THEN <<>>
    ELSE IF IsSpace(s[1])
         THEN <<" ">> \o CollapseSpaces(SliceFrom(s, SpaceRun(s, 1)))
         ELSE <<s[1]>> \o CollapseSpaces(Tail(s))

generateDescription(text) ==
    LET lines == NonBlankLines(text)
        body == Trim(CollapseSpaces(Join(Tail(lines), <<" ">>)))
    IN  IF Len(lines) = 0 \/ Len(body) = 0 THEN <<>>
        ELSE IF Len(body) <= DESC_MAX THEN body
        ELSE Slice(body, 0, DESC_KEEP) \o ELLIPSIS

----------------------------------------------------------------------------
(* Command line: parseArgs *)

OPT_TEXT == <<"-", "-", "t", "e", "x", "t">>
OPT_T == <<"-", "t">>
OPT_IMAGES == <<"-", "-", "i", "m", "a", "g", "e", "s">>
OPT_I == <<"-", "i">>
OPT_TITLE == <<"-", "-", "t", "i", "t", "l", "e">>
OPT_CATEGORY == <<"-", "-", "c", "a", "t", "e", "g", "o", "r", "y">>
OPT_C == <<"-", "c">>
OPT_WRITER == <<"-", "-", "w", "r", "i", "t", "e", "r">>
OPT_W == <<"-", "w">>
OPT_FEATURED == <<"-", "-", "f", "e", "a", "t", "u", "r", "e", "d">>
OPT_DRY_RUN == <<"-", "-", "d", "r", "y", "-", "r", "u", "n">>

\* args[j], undefined past the end (j is 1-based)
ArgAt(args, j) == IF j <= Len(args) THEN Some(args[j]) ELSE None

\* the inner while-loop of --images: the index of the first argument from j on
\* that starts with '-', or Len(args) + 1
RECURSIVE ImagesEnd(_, _)
ImagesEnd(args, j) ==
    IF j <= Len(args) /\ ~StartsWith(args[j], <<"-">>) THEN ImagesEnd(args, j + 1) ELSE j

\* the while-loop of parseArgs from 1-based index i
RECURSIVE ParseLoop(_, _, _)
ParseLoop(args, i, o) ==
    IF i > Len(args) THEN o
    ELSE LET arg == args[i]
         IN  IF arg \in {OPT_TEXT, OPT_T}
                 THEN ParseLoop(args, i + 2, [o EXCEPT !.text = ArgAt(args, i + 1)])
             ELSE IF arg \in {OPT_IMAGES, OPT_I}
                 THEN LET e == ImagesEnd(args, i + 1)
                      IN  ParseLoop(args, e,
                                    [o EXCEPT !.images = @ \o SubSeq(args, i + 1, e - 1)])
             ELSE IF arg = OPT_TITLE
                 THEN ParseLoop(args, i + 2, [o EXCEPT !.title = ArgAt(args, i + 1)])
             ELSE IF arg \in {OPT_CATEGORY, OPT_C}
                 THEN ParseLoop(args, i + 2, [o EXCEPT !.category = ArgAt(args, i + 1)])
             ELSE IF arg \in {OPT_WRITER, OPT_W}
                 THEN ParseLoop(args, i + 2, [o EXCEPT !.writer = ArgAt(args, i + 1)])
             ELSE IF arg = OPT_FEATURED
                 THEN ParseLoop(args, i + 1, [o EXCEPT !.featured = TRUE])
             ELSE IF arg = OPT_DRY_RUN
                 THEN ParseLoop(args, i + 1, [o EXCEPT !.dryRun = TRUE])
             ELSE ParseLoop(args, i + 1, o)

NoOpts ==
    [text |-> None, images |-> <<>>, title |-> None, category |-> None,
     writer |-> None, featured |-> FALSE, dryRun |-> FALSE]

parseArgs(args) == ParseLoop(args, 1, NoOpts)

\* JavaScript truthiness of an optional string: defined and not ''
Truthy(o) == IsSome(o) /\ Get(o) # <<>>

\* a || b on optional strings, b a string
OrElse(o, b) == IF Truthy(o) THEN Get(o) ELSE b

----------------------------------------------------------------------------
(* The publish script: scripts/post-blog.mjs *)

\* path.extname(p).toLowerCase(): from the last '.' on, '' when there is none
\* or the name starts with it
RECURSIVE LastDot(_, _)
LastDot(p, i) == IF i = 0 THEN 0 ELSE IF p[i] = "." THEN i ELSE LastDot(p, i - 1)

ExtName(p) ==
    LET d == LastDot(p, Len(p))
    IN  IF d <= 1 THEN <<>> ELSE [k \in 1 .. (Len(p) - d + 1) |-> Lower(p[d + k - 1])]

DOCX == <<".", "d", "o", "c", "x">>

\* values an environment variable takes after loadEnv: unset, '' and a value
EnvValues == {None, Some(<<>>), Some(<<"v">>)}

\* the command lines of the model: every combination of the option groups
TextArgs == { <<>>, <<OPT_TEXT, <<"b", ".", "t", "x", "t">> >>,
              <<OPT_T, <<"b", ".", "d", "o", "c", "x">> >> }
ImageArgs == { <<>>, <<OPT_IMAGES, <<"a">> >>, <<OPT_I, <<"a">>, <<"b">> >> }
TitleArgs == { <<>>, <<OPT_TITLE, <<>> >>, <<OPT_TITLE, <<"T">> >> }
CategoryArgs == { <<>>, <<OPT_CATEGORY, <<>> >>, <<OPT_C, CATEGORIES[4]>>,
                  <<OPT_C, <<"x">> >> }
WriterArgs == { <<>>, <<OPT_WRITER, <<"W">> >>, <<OPT_W, <<>> >> }
FeaturedArgs == { <<>>, <<OPT_FEATURED>> }
DryRunArgs == { <<>>, <<OPT_DRY_RUN>> }

ArgvSet ==
    { t \o i \o ti \o c \o w \o f \o d :
        t \in TextArgs, i \in ImageArgs, ti \in TitleArgs, c \in CategoryArgs,
        w \in WriterArgs, f \in FeaturedArgs, d \in DryRunArgs }

\* the source texts of the model: empty, a lone heading marker, and a heading
\* followed by a body with one keyword (kenshuu) of the label seido
RunTexts ==
    { <<>>, <<"#">>,
      <<"#", " ", "H", "i", "\n", "\n", "ken", "shuu", " ", " ", "a", "\n">> }

\* what an upload (uploadImageBuffer / uploadImageFile / uploadImage) can do:
\* the local read throws, fetch throws, the response is not ok, the response is
\* ok with or without a url in its body
UploadOutcomes == {"unreadable", "network_error", "http_error", "ok_url", "ok_no_url"}

\* the upload reached the network (fetch was called)
Fetched(outcome) == outcome # "unreadable"

\* the value the upload returns; it throws in the other outcomes
UploadThrows(outcome) == outcome \in {"unreadable", "network_error", "http_error"}
UploadUrl(outcome) == IF outcome = "ok_url" THEN Some(<<"u">>) ELSE None

\* mutant: a failed upload leaves a url behind
EyecatchAfterStale(outcome) == Some(<<"u">>)

\* the value of eyecatch after the try/catch around the upload
EyecatchAfter(outcome) == IF UploadThrows(outcome) THEN None ELSE UploadUrl(outcome)

\* mutant: the upload is attempted in a dry run too
NeedsUploadAlways(o) == Len(o.images) > 0

\* opts.images.length > 0 and !opts.dryRun: the eyecatch upload is attempted
NeedsUpload(o) == Len(o.images) > 0 /\ ~o.dryRun

\* mammoth's HTML for a document, abstracted to the image sources it embeds
DocxHtml(srcs) == Join(srcs, <<"\n">>)

\* postData as assembled by main
PostData(ti, html_, cat, desc, o, eye) ==
    [title |-> ti, content |-> html_, category |-> <<cat>>, description |-> desc,
     is_featured |-> o.featured,
     writer |-> IF Truthy(o.writer) THEN o.writer ELSE None,
     eyecatch |-> IF Truthy(eye) THEN eye ELSE None]

RunIdle ==
    /\ variant = "none"
    /\ env = [domain |-> None, key |-> None]
    /\ pc = "off"
    /\ argv = <<>>
    /\ opts = NoOpts
    /\ doc = [rawText |-> <<>>, html |-> <<>>]
    /\ embeddedLeft = 0
    /\ docSrcs = <<>>
    /\ meta = [title |-> <<>>, category |-> <<>>, description |-> <<>>]
    /\ bestImage = [image |-> None, exists |-> FALSE]
    /\ eyecatch = None
    /\ eyeOutcome = None
    /\ netCalls = <<>>
    /\ exitCode = None
    /\ printed = None
    /\ submitted = None
    /\ created = None

RunInit ==
    /\ variant \in {"docx", "text"}
    /\ env \in [domain : EnvValues, key : EnvValues]
    /\ pc = "start"
    /\ argv = <<>>
    /\ opts = NoOpts
    /\ doc = [rawText |-> <<>>, html |-> <<>>]
    /\ embeddedLeft = 0
    /\ docSrcs = <<>>
    /\ meta = [title |-> <<>>, category |-> <<>>, description |-> <<>>]
    /\ bestImage = [image |-> None, exists |-> FALSE]
    /\ eyecatch = None
    /\ eyeOutcome = None
    /\ netCalls = <<>>
    /\ exitCode = None
    /\ printed = None
    /\ submitted = None
    /\ created = None

\* process.exit(code), or the end of main (code 0)
Exit(code) == pc' = "done" /\ exitCode' = Some(code)

\* module top level: loadEnv, the check of the two variables, createClient
Startup ==
    /\ pc = "start"
    /\ IF ~Truthy(env.domain) \/ ~Truthy(env.key)
       THEN Exit(1)
       ELSE pc' = "main" /\ UNCHANGED exitCode
    /\ UNCHANGED <<variant, env, argv, opts, doc, embeddedLeft, docSrcs, meta, bestImage,
                   eyecatch, netCalls, printed, submitted, eyeOutcome>>
    /\ UNCHANGED created
    /\ RunOnly

\* main: parseArgs and the two checks of --text
\* (args: process.argv.slice(2); exists: fs.existsSync(opts.text))
ParseArgs ==
    /\ pc = "main"
    /\ \E args \in ArgvSet, exists \in BOOLEAN :
          /\ argv' = args
          /\ opts' = parseArgs(args)
          /\ IF ~Truthy(opts'.text) \/ ~exists
             THEN Exit(1)
             ELSE pc' = "process" /\ UNCHANGED exitCode
    /\ UNCHANGED <<variant, env, doc, embeddedLeft, docSrcs, meta, bestImage, eyecatch,
                   netCalls, printed, submitted, eyeOutcome>>
    /\ UNCHANGED created
    /\ RunOnly

IsDocxRun == variant = "docx" /\ ExtName(Get(opts.text)) = DOCX

\* processText (part_000), readFileSync + textToHtml (part_001)
ProcessText ==
    /\ pc = "process"
    /\ ~IsDocxRun
    /\ \E text \in RunTexts : doc' = [rawText |-> text, html |-> textToHtml(text)]
    /\ pc' = "derive"
    /\ UNCHANGED <<variant, env, argv, opts, embeddedLeft, docSrcs, meta, bestImage,
                   eyecatch, netCalls, exitCode, printed, submitted, eyeOutcome>>
    /\ UNCHANGED created
    /\ RunOnly

\* processDocx: readFileSync and the start of mammoth.convertToHtml on a
\* document with n embedded images
DocxBegin ==
    /\ pc = "process"
    /\ IsDocxRun
    /\ \E n \in 0 .. MaxEmbedded : embeddedLeft' = n
    /\ pc' = "docx"
    /\ UNCHANGED <<variant, env, argv, opts, doc, docSrcs, meta, bestImage, eyecatch,
                   netCalls, exitCode, printed, submitted, eyeOutcome>>
    /\ UNCHANGED created
    /\ RunOnly

\* readFileSync or mammoth throws: main's promise rejects, the process ends 1
ProcessCrash ==
    /\ pc = "process"
    /\ Exit(1)
    /\ UNCHANGED <<variant, env, argv, opts, doc, embeddedLeft, docSrcs, meta, bestImage,
                   eyecatch, netCalls, printed, submitted, eyeOutcome>>
    /\ UNCHANGED created
    /\ RunOnly

\* the convertImage callback of processDocx, for one embedded image
ConvertImage ==
    /\ pc = "docx"
    /\ embeddedLeft > 0
    /\ embeddedLeft' = embeddedLeft - 1
    /\ IF opts.dryRun
       THEN /\ docSrcs' = Append(docSrcs, <<"[", "i", "m", "g", "]">>)
            /\ UNCHANGED netCalls
       ELSE \E outcome \in UploadOutcomes :
            /\ netCalls' = IF Fetched(outcome)
                           THEN Append(netCalls, "media:embedded") ELSE netCalls
            /\ docSrcs' = Append(docSrcs,
                                 IF UploadThrows(outcome) THEN <<>>
                                 ELSE IF IsSome(UploadUrl(outcome))
                                      THEN Get(UploadUrl(outcome)) ELSE <<>>)
    /\ UNCHANGED <<variant, env, pc, argv, opts, doc, meta, bestImage, eyecatch, exitCode,
                   printed, submitted, eyeOutcome>>
    /\ UNCHANGED created
    /\ RunOnly

\* the end of processDocx: extractRawText and the returned record
DocxEnd ==
    /\ pc = "docx"
    /\ embeddedLeft = 0
    /\ \E text \in RunTexts : doc' = [rawText |-> text, html |-> DocxHtml(docSrcs)]
    /\ pc' = "derive"
    /\ UNCHANGED <<variant, env, argv, opts, embeddedLeft, docSrcs, meta, bestImage,
                   eyecatch, netCalls, exitCode, printed, submitted, eyeOutcome>>
    /\ UNCHANGED created
    /\ RunOnly

\* main: title, category, description and the check of the category
Derive ==
    /\ pc = "derive"
    /\ meta' = [title |-> OrElse(opts.title, generateTitle(doc.rawText)),
                category |-> OrElse(opts.category, detectCategory(doc.rawText)),
                description |-> generateDescription(doc.rawText)]
    /\ IF \E i \in 1 .. Len(CATEGORIES) : CATEGORIES[i] = meta'.category
       THEN pc' = "eyecatch" /\ UNCHANGED exitCode
       ELSE Exit(1)
    /\ UNCHANGED <<variant, env, argv, opts, doc, embeddedLeft, docSrcs, bestImage,
                   eyecatch, netCalls, printed, submitted, eyeOutcome>>
    /\ UNCHANGED created
    /\ RunOnly

\* main: selectBestImage over the candidates, with the file system as it is
SelectEyecatch ==
    /\ pc = "eyecatch"
    /\ \E fs \in [{opts.images[k] : k \in 1 .. Len(opts.images)} -> Sizes] :
          LET b == selectBestImage(fs, opts.images)
          IN  /\ bestImage' = [image |-> b, exists |-> IsSome(b) /\ fs[Get(b)] # Missing]
              /\ pc' = IF NeedsUpload(opts) THEN "upload" ELSE "assemble"
    /\ UNCHANGED <<variant, env, argv, opts, doc, embeddedLeft, docSrcs, meta,
                   eyecatch, netCalls, exitCode, printed, submitted, eyeOutcome>>
    /\ UNCHANGED created
    /\ RunOnly

\* main: try { eyecatch = await uploadImageFile(bestImage) } catch { continue }
UploadEyecatch ==
    /\ pc = "upload"
    /\ \E outcome \in UploadOutcomes :
          /\ bestImage.exists \/ outcome = "unreadable"
          /\ netCalls' = IF Fetched(outcome)
                         THEN Append(netCalls, "media:eyecatch") ELSE netCalls
          /\ eyecatch' = EyecatchAfter(outcome)
          /\ eyeOutcome' = Some(outcome)
    /\ pc' = "assemble"
    /\ UNCHANGED <<variant, env, argv, opts, doc, embeddedLeft, docSrcs, meta, bestImage,
                   exitCode, printed, submitted>>
    /\ UNCHANGED created
    /\ RunOnly

\* main: postData, and the dry-run print and return
Assemble ==
    /\ pc = "assemble"
    /\ LET postData == PostData(meta.title, doc.html, meta.category, meta.description,
                                opts, eyecatch)
       IN  IF opts.dryRun
           THEN /\ printed' = Some(postData)
                /\ Exit(0)
                /\ UNCHANGED submitted
           ELSE /\ submitted' = Some(postData)
                /\ pc' = "create"
                /\ UNCHANGED <<printed, exitCode>>
    /\ UNCHANGED <<variant, env, argv, opts, doc, embeddedLeft, docSrcs, meta, bestImage,
                   eyecatch, netCalls, eyeOutcome>>
    /\ UNCHANGED created
    /\ RunOnly

\* what client.create can do: resolve, or reject because the request failed
\* or because the service answered with an error
CreateOutcomes == {"ok", "network_error", "rejected"}

\* mutant: the catch block does not end the process
CreateExitZero(outcome) == IF outcome \in CreateOutcomes THEN 0 ELSE 1

\* the exit status after the try/catch around client.create
CreateExit(outcome) == IF outcome = "ok" THEN 0 ELSE 1

\* main: try { await client.create(...) } catch { process.exit(1) }
Create ==
    /\ pc = "create"
    /\ netCalls' = Append(netCalls, "create")
    /\ \E outcome \in CreateOutcomes :
          /\ created' = Some(outcome)
          /\ Exit(CreateExit(outcome))
    /\ UNCHANGED <<variant, env, argv, opts, doc, embeddedLeft, docSrcs, meta, bestImage,
                   eyecatch, printed, submitted, eyeOutcome>>
    /\ RunOnly

----------------------------------------------------------------------------
(* The read client: src/lib/microcms.ts *)

\* mutant: the client is created whatever the environment holds
ClientAlways(e) == TRUE

\* serviceDomain && apiKey ? createClient(...) : null, as a flag
ClientConfigured(e) == Truthy(e.domain) /\ Truthy(e.key)

ReadIdle ==
    /\ loaded = FALSE
    /\ readEnv = [domain |-> None, key |-> None]
    /\ client = FALSE
    /\ readLog = <<>>

\* module load: the two values are read and the client created or not
ReadInit ==
    /\ loaded = TRUE
    /\ readEnv \in [domain : EnvValues, key : EnvValues]
    /\ client = ClientConfigured(readEnv)
    /\ readLog = <<>>

\* one call of the read client: the operation, whether client.get was called
\* and what the caller got
ReadEntry(op, remote, result) == [op |-> op, remote |-> remote, result |-> result]

\* getBlogs(queries)
GetBlogs(ok) ==
    /\ loaded
    /\ Len(readLog) < MaxReads
    /\ readLog' = Append(readLog,
                         IF ~client THEN ReadEntry("getBlogs", FALSE, "empty_list")
                         ELSE ReadEntry("getBlogs", TRUE,
                                        IF ok THEN "remote_result" ELSE "throws"))
    /\ UNCHANGED <<loaded, readEnv, client>>
    /\ ReadOnly

\* getBlogDetail(contentId)
GetBlogDetail(ok) ==
    /\ loaded
    /\ Len(readLog) < MaxReads
    /\ readLog' = Append(readLog,
                         IF ~client THEN ReadEntry("getBlogDetail", FALSE, "throws")
                         ELSE ReadEntry("getBlogDetail", TRUE,
                                        IF ok THEN "remote_result" ELSE "throws"))
    /\ UNCHANGED <<loaded, readEnv, client>>
    /\ ReadOnly

----------------------------------------------------------------------------
(* The notification handler *)

Methods == {"GET", "POST", "PUT"}

\* a field of the form: null, or label and an optional value
FieldName == Some([label |-> <<"n">>, value |-> Some(<<"x">>)])
FieldEmpty == Some([label |-> <<"m">>, value |-> Some(<<>>)])
FieldNoValue == Some([label |-> <<"t">>, value |-> None])
FieldNull == None

\* req.body: undefined, or type and an optional fields array
Bodies ==
    { None,
      Some([type |-> "career", fields |-> None]),
      Some([type |-> "career", fields |-> Some(<<FieldName>>)]),
      Some([type |-> "intern", fields |-> Some(<<FieldName, FieldEmpty>>)]),
      Some([type |-> "intern", fields |-> Some(<<>>)]),
      Some([type |-> "career", fields |-> Some(<<FieldNoValue, FieldNull>>)]) }

\* the destructuring of req.body and fields.map(...) complete without a throw
WellFormed(body) ==
    /\ IsSome(body)
    /\ IsSome(Get(body).fields)
    /\ \A k \in 1 .. Len(Get(Get(body).fields)) : IsSome(Get(Get(body).fields)[k])

NOT_ENTERED == <<"(", "mi", "nyuu", "ryoku", ")">>

\* `*${f.label}*\n${f.value || '(mi-nyuuryoku)'}`
FieldText(f) == <<"*">> \o f.label \o <<"*", "\n">> \o OrElse(f.value, NOT_ENTERED)

\* the header text and the section fields of the message (the context block
\* carries the time of day and is left out)
Payload(body) ==
    [title |-> IF Get(body).type = "career" THEN "career-entry" ELSE "intern-entry",
     fields |-> [k \in 1 .. Len(Get(Get(body).fields)) |->
                    FieldText(Get(Get(Get(body).fields)[k]))]]

\* what fetch(webhookUrl) can do: throw, or answer with a status
FetchOutcomes == {"throws", "200", "204", "400", "500"}

\* mutant: every answer counts as ok
ResOkAny(outcome) == outcome # "throws"

\* slackRes.ok
ResOk(outcome) == outcome \in {"200", "204"}

STATUS_OK == 200
STATUS_METHOD == 405
STATUS_ERROR == 500
STATUS_GATEWAY == 502

NotifyIdle ==
    /\ webhookUrl = None
    /\ nPc = "off"
    /\ nReq = None
    /\ nSent = <<>>
    /\ nResponses = <<>>
    /\ nFetch = None
    /\ nServed = 0

NotifyInit ==
    /\ webhookUrl \in {None, Some(<<>>), Some(<<"h">>)}
    /\ nPc = "idle"
    /\ nReq = None
    /\ nSent = <<>>
    /\ nResponses = <<>>
    /\ nFetch = None
    /\ nServed = 0

\* res.status(code).json(...)
Respond(code) == nResponses' = Append(nResponses, code) /\ nPc' = "done"

\* a request arrives
Receive(method, body) ==
    /\ nPc \in {"idle", "done"}
    /\ nServed < MaxRequests
    /\ nReq' = Some([method |-> method, body |-> body])
    /\ nPc' = "handling"
    /\ nSent' = <<>>
    /\ nResponses' = <<>>
    /\ nFetch' = None
    /\ nServed' = nServed + 1
    /\ UNCHANGED webhookUrl
    /\ NotifyOnly

\* handler, up to the call of fetch
Handle ==
    /\ nPc = "handling"
    /\ IF Get(nReq).method # "POST"
       THEN Respond(STATUS_METHOD) /\ UNCHANGED nSent
       ELSE IF ~Truthy(webhookUrl)
       THEN Respond(STATUS_ERROR) /\ UNCHANGED nSent
       ELSE IF ~WellFormed(Get(nReq).body)
       THEN Respond(STATUS_ERROR) /\ UNCHANGED nSent
       ELSE /\ nSent' = Append(nSent, Payload(Get(nReq).body))
            /\ nPc' = "fetching"
            /\ UNCHANGED nResponses
    /\ UNCHANGED <<webhookUrl, nReq, nFetch, nServed>>
    /\ NotifyOnly

\* handler, from the return of fetch on; textThrows: slackRes.text() rejects
FetchReturns(outcome, textThrows) ==
    /\ nPc = "fetching"
    /\ nFetch' = Some(outcome)
    /\ IF outcome = "throws" THEN Respond(STATUS_ERROR)
       ELSE IF ~ResOk(outcome)
            THEN Respond(IF textThrows THEN STATUS_ERROR ELSE STATUS_GATEWAY)
       ELSE Respond(STATUS_OK)
    /\ UNCHANGED <<webhookUrl, nReq, nSent, nServed>>
    /\ NotifyOnly

----------------------------------------------------------------------------
(* Specifications *)

\* the image selector on its own
InitSelect == SelInit /\ CatIdle /\ HtmlIdle /\ RunIdle /\ ReadIdle /\ NotifyIdle /\ TitleIdle
NextSelect == (\E p \in Paths : AddPath(p)) \/ Select
SpecSelect == InitSelect /\ [][NextSelect]_vars

\* the category classifier on its own
InitCategory == SelIdle /\ CatInit /\ HtmlIdle /\ RunIdle /\ ReadIdle /\ NotifyIdle /\ TitleIdle
NextCategory == (\E f \in CatFragments : CatAppend(f)) \/ CatDetect
SpecCategory == InitCategory /\ [][NextCategory]_vars

\* the text normaliser on its own
InitHtml == SelIdle /\ CatIdle /\ HtmlInit /\ RunIdle /\ ReadIdle /\ NotifyIdle /\ TitleIdle
NextHtml == (\E f \in HtmlFragments : HtmlAppend(f)) \/ HtmlNormalize
SpecHtml == InitHtml /\ [][NextHtml]_vars

\* the notification handler
InitNotify == SelIdle /\ CatIdle /\ HtmlIdle /\ RunIdle /\ ReadIdle /\ NotifyInit /\ TitleIdle
NextNotify ==
    \/ \E method \in Methods, body \in Bodies : Receive(method, body)
    \/ Handle
    \/ \E outcome \in FetchOutcomes, textThrows \in BOOLEAN : FetchReturns(outcome, textThrows)
SpecNotify == InitNotify /\ [][NextNotify]_vars

\* the title deriver on its own
InitTitle == SelIdle /\ CatIdle /\ HtmlIdle /\ RunIdle /\ ReadIdle /\ NotifyIdle /\ TitleInit
NextTitle == (\E f \in TitleFragments : TitleAppend(f)) \/ TitleDerive
SpecTitle == InitTitle /\ [][NextTitle]_vars

\* one program of the repository that reads the CMS configuration: a run of
\* the publish script, or an instance of the read client
Init ==
    /\ SelIdle /\ CatIdle /\ HtmlIdle /\ NotifyIdle /\ TitleIdle
    /\ \/ RunInit /\ ReadIdle
       \/ RunIdle /\ ReadInit

Next ==
    \/ Startup
    \/ ParseArgs
    \/ ProcessText
    \/ DocxBegin
    \/ ProcessCrash
    \/ ConvertImage
    \/ DocxEnd
    \/ Derive
    \/ SelectEyecatch
    \/ UploadEyecatch
    \/ Assemble
    \/ Create
    \/ \E ok \in BOOLEAN : GetBlogs(ok)
    \/ \E ok \in BOOLEAN : GetBlogDetail(ok)

Spec == Init /\ [][Next]_vars

----------------------------------------------------------------------------
(* Claims *)

\* helpers of the claims' statements
InSeq(x, q) == \E k \in 1 .. Len(q) : q[k] = x

\* number of (non-overlapping) occurrences of sub in s, from position i on
RECURSIVE Occurrences(_, _, _)
Occurrences(s, sub, i) ==
    IF i + Len(sub) - 1 > Len(s) THEN 0
    ELSE IF SubSeq(s, i, i + Len(sub) - 1) = sub
         THEN 1 + Occurrences(s, sub, i + Len(sub))
         ELSE Occurrences(s, sub, i + 1)

\* C1 (as claimed): in a publish run whose --category override is not one of
\* the four labels, no network call is ever made and the run ends non-zero.
C1_InvalidOverrideFailsBeforeNetwork ==
    (IsSome(opts.category) /\ ~InSeq(Get(opts.category), CATEGORIES))
        => /\ netCalls = <<>>
           /\ pc = "done" => exitCode = Some(1)

\* C2: in a dry run no network call is made and nothing is submitted on any
\* path; the record is printed only as the last step of the run, and a dry run
\* that ends with status 0 has printed the assembled record.
C2_DryRunNoNetwork ==
    opts.dryRun
        => /\ netCalls = <<>>
           /\ submitted = None
           /\ pc \notin {"upload", "create"}
           /\ IsSome(printed) => (pc = "done" /\ exitCode = Some(0))
           /\ (pc = "done" /\ exitCode = Some(0))
                 => printed = Some(PostData(meta.title, doc.html, meta.category,
                                            meta.description, opts, None))

\* C2 witness: a finished dry run of a Word document with embedded images and
\* two candidate images that printed its record.
C2_Witness ==
    /\ opts.dryRun /\ pc = "done" /\ IsSome(printed)
    /\ Len(docSrcs) > 0
    /\ Len(opts.images) = 2

\* C3: in a non-dry run with at least one image, once the eyecatch upload has
\* been attempted the run goes on to the create call whatever the upload did;
\* the submitted record has an eyecatch exactly when the upload returned a
\* url, and then it is that url.
C3_EyecatchFailureDegrades ==
    /\ IsSome(eyeOutcome)
          => /\ ~opts.dryRun /\ Len(opts.images) > 0
             /\ pc \in {"assemble", "create", "done"}
             /\ pc \in {"create", "done"} => IsSome(submitted)
             /\ pc = "done" => netCalls[Len(netCalls)] = "create"
    /\ IsSome(submitted)
          => /\ IsSome(Get(submitted).eyecatch) <=> eyeOutcome = Some("ok_url")
             /\ IsSome(Get(submitted).eyecatch) => Get(submitted).eyecatch = Some(<<"u">>)

\* C3 witness: a finished run whose eyecatch upload got a non-2xx response and
\* whose record was submitted without an eyecatch.
C3_Witness ==
    /\ pc = "done" /\ eyeOutcome = Some("http_error")
    /\ IsSome(submitted) /\ Get(submitted).eyecatch = None
    /\ InSeq("create", netCalls)

\* C4 (as claimed): when at least one path has a determinable size,
\* selectBestImage returns a path whose size was determined.
C4_SkipsUndeterminable ==
    (selDone /\ \E k \in 1 .. Len(imagePaths) : fsSize[imagePaths[k]] # Missing)
        => IsSome(selResult) /\ fsSize[Get(selResult)] # Missing

\* the first index of imagePaths holding a file of the largest size
FirstLargest ==
    CHOOSE k \in 1 .. Len(imagePaths) :
        /\ \A j \in 1 .. Len(imagePaths) : fsSize[imagePaths[j]] <= fsSize[imagePaths[k]]
        /\ \A j \in 1 .. (k - 1) : fsSize[imagePaths[j]] < fsSize[imagePaths[k]]

AllExist == \A k \in 1 .. Len(imagePaths) : fsSize[imagePaths[k]] # Missing

\* C5: selectBestImage returns null for no path, the path itself for one path,
\* and for two or more existing files the earliest path of the largest size;
\* for two files of different sizes the result is the same in either order.
C5_SelectBest ==
    selDone
        => /\ Len(imagePaths) = 0 => selResult = None
           /\ Len(imagePaths) = 1 => selResult = Some(imagePaths[1])
           /\ (Len(imagePaths) >= 2 /\ AllExist) => selResult = Some(imagePaths[FirstLargest])
           /\ (Len(imagePaths) = 2 /\ AllExist
                 /\ fsSize[imagePaths[1]] # fsSize[imagePaths[2]])
                 => selectBestImage(fsSize, <<imagePaths[2], imagePaths[1]>>) = selResult

\* C5 witness: three existing files, the last two distinct paths sharing the
\* largest size, and the earlier of them returned.
C5_Witness ==
    /\ selDone /\ Len(imagePaths) = 3 /\ AllExist
    /\ imagePaths[2] # imagePaths[3]
    /\ fsSize[imagePaths[1]] < fsSize[imagePaths[2]]
    /\ fsSize[imagePaths[2]] = fsSize[imagePaths[3]]
    /\ selResult = Some(imagePaths[2])

\* the first label, in declared order, of the highest score for catText
FirstTopLabel ==
    CHOOSE i \in 1 .. Len(CATEGORIES) :
        /\ \A j \in 1 .. Len(CATEGORIES) : Score(catText, j) <= Score(catText, i)
        /\ \A j \in 1 .. (i - 1) : Score(catText, j) < Score(catText, i)

\* C6: detectCategory returns one of the four labels: the first label in
\* declared order among those of the highest score, hence the first declared
\* label when every score is zero.
C6_DetectCategory ==
    catDone /\ IsSome(catResult)
        => /\ InSeq(Get(catResult), CATEGORIES)
           /\ Get(catResult) = CATEGORIES[FirstTopLabel]
           /\ (\A j \in 1 .. Len(CATEGORIES) : Score(catText, j) = 0)
                 => Get(catResult) = CATEGORIES[1]

\* C6 witness: a text in which the second and the fourth label both score 1
\* and no label scores more, classified as the second label.
C6_Witness ==
    /\ catDone /\ IsSome(catResult)
    /\ Score(catText, 1) = 0 /\ Score(catText, 2) = 1
    /\ Score(catText, 3) = 0 /\ Score(catText, 4) = 1
    /\ Get(catResult) = CATEGORIES[2]

\* C7: the output of textToHtml holds as many <ul> as </ul>.
C7_ListMarkersBalanced ==
    htmlDone => Occurrences(htmlOut, UL_OPEN, 1) = Occurrences(htmlOut, UL_CLOSE, 1)

\* C7 witness: a text whose last line is a list item with the content "<ul>",
\* normalised to one list block.
C7_Witness ==
    /\ htmlDone
    /\ htmlText = <<"-", " ">> \o UL_OPEN
    /\ Occurrences(htmlOut, UL_OPEN, 1) = 1
    /\ Occurrences(htmlOut, UL_CLOSE, 1) = 1

\* one of the two configuration values is unset or empty
ConfigMissing(e) == ~Truthy(e.domain) \/ ~Truthy(e.key)

\* the publish script, started without its configuration, has parsed no
\* argument and made no network call, and ends with status 1
PublishRefusesToStart ==
    (pc # "off" /\ ConfigMissing(env))
        => /\ pc \in {"start", "done"}
           /\ argv = <<>> /\ opts = NoOpts
           /\ netCalls = <<>>
           /\ pc = "done" => exitCode = Some(1)

Assembled == IF IsSome(printed) THEN printed ELSE submitted

\* C9 (as claimed): in the assembled record every given override wins: the
\* title is --title, the category is the list of --category, the writer is
\* --writer, and the featured flag tells whether --featured was given.
C9_OverridesWin ==
    IsSome(Assembled)
        => LET r == Get(Assembled)
           IN  /\ IsSome(opts.title) => r.title = Get(opts.title)
               /\ IsSome(opts.category) => r.category = <<Get(opts.category)>>
               /\ IsSome(opts.writer) => r.writer = opts.writer
               /\ r.is_featured = InSeq(OPT_FEATURED, argv)

\* C10: a request gets exactly one response and the webhook at most one call;
\* the webhook is called only for a POST with a webhook URL configured and a
\* well-formed body; the response is 200 exactly when that call answered 2xx,
\* and a failure status otherwise.
C10_NotifyOnce ==
    /\ Len(nResponses) <= 1
    /\ Len(nSent) <= 1
    /\ nPc = "done" <=> Len(nResponses) = 1
    /\ Len(nSent) = 1
          => /\ Get(nReq).method = "POST"
             /\ Truthy(webhookUrl)
             /\ WellFormed(Get(nReq).body)
    /\ IsSome(nFetch) => Len(nSent) = 1
    /\ nPc = "done"
          => /\ nResponses[1] = 200 <=> nFetch \in {Some("200"), Some("204")}
             /\ nResponses[1] # 200 => nResponses[1] \in {405, 500, 502}

\* C10 witness: the second request served, a well-formed POST whose webhook
\* call answered 400 and which got the response 502.
C10_Witness ==
    /\ nServed = 2 /\ nPc = "done"
    /\ Len(nSent) = 1 /\ nFetch = Some("400")
    /\ nResponses = <<502>>

\* the lines of titleText that hold a character other than white space
TitleLines ==
    SelectSeq(SplitLines(titleText), LAMBDA l : \E k \in 1 .. Len(l) : ~IsSpace(l[k]))

\* the first of them without its leading run of # and the white space around
\* what follows
TitleCore == Trim(StripHeading(TitleLines[1]))

\* C11: generateTitle returns the placeholder when the text has no non-blank
\* line; otherwise the first non-blank line, heading markers stripped and
\* trimmed: as it is when at most 60 characters long, and its first 57
\* characters followed by the 3-character ellipsis when longer.  The title is
\* never longer than 60 characters.
C11_TitleBounded ==
    titleDone
        => /\ Len(titleResult) <= 60
           /\ Len(TitleLines) = 0 => titleResult = UNTITLED
           /\ (Len(TitleLines) > 0 /\ Len(TitleCore) <= 60) => titleResult = TitleCore
           /\ (Len(TitleLines) > 0 /\ Len(TitleCore) > 60)
                 => /\ Len(titleResult) = 60
                    /\ SubSeq(titleResult, 1, 57) = SubSeq(TitleCore, 1, 57)
                    /\ SubSeq(titleResult, 58, 60) = ELLIPSIS

\* C11 witness: a heading line of 61 characters after its marker, cut to 57
\* characters and the ellipsis.
C11_Witness ==
    /\ titleDone
    /\ titleText = <<"#">> \o LongRun \o LongRun \o <<"a">>
    /\ titleResult = SubSeq(LongRun \o LongRun, 1, 57) \o ELLIPSIS

\* C12: in a non-dry run the create call is made at most once; when it fails,
\* by a network error or a rejection, the run ends with a non-zero status
\* without a second call; and a non-dry run that ends with status 0 has made
\* the create call, as its last network call, and that call succeeded.
C12_CreateFailureIsFatal ==
    /\ Occurrences(netCalls, <<"create">>, 1) <= 1
    /\ IsSome(created) <=> InSeq("create", netCalls)
    /\ IsSome(created)
          => /\ ~opts.dryRun /\ pc = "done"
             /\ netCalls[Len(netCalls)] = "create"
             /\ created # Some("ok") => (IsSome(exitCode) /\ Get(exitCode) # 0)
    /\ (pc = "done" /\ ~opts.dryRun /\ exitCode = Some(0)) => created = Some("ok")

\* C12 witness: a run that uploaded an eyecatch, whose create call was
\* rejected, ended with status 1 after that single call.
C12_Witness ==
    /\ pc = "done" /\ created = Some("rejected") /\ exitCode = Some(1)
    /\ netCalls = <<"media:eyecatch", "create">>

\* the elements of htmlOut, one per line of the output
OutElements == IF htmlOut = <<>> THEN <<>> ELSE SplitLines(htmlOut)

\* the tags of the elements that carry line content
ContentTags == { <<"h", "1">>, <<"h", "2">>, <<"h", "3">>, <<"l", "i">>, <<"p">> }

OpenTag(tag) == <<"<">> \o tag \o <<">">>
CloseTag(tag) == <<"<", "/">> \o tag \o <<">">>

EndsWith(s, suf) ==
    Len(s) >= Len(suf) /\ SubSeq(s, Len(s) - Len(suf) + 1, Len(s)) = suf

\* e is <tag>...</tag>
IsElementOf(e, tag) ==
    /\ Len(e) >= Len(OpenTag(tag)) + Len(CloseTag(tag))
    /\ StartsWith(e, OpenTag(tag))
    /\ EndsWith(e, CloseTag(tag))

IsContentElement(e) == \E tag \in ContentTags : IsElementOf(e, tag)

\* the text between the tags of a content element
Inner(e) ==
    LET tag == CHOOSE t \in ContentTags : IsElementOf(e, t)
    IN  SubSeq(e, Len(OpenTag(tag)) + 1, Len(e) - Len(CloseTag(tag)))

\* s read back: each entity &amp; &lt; &gt; stands for its character, in one
\* pass from the left
RECURSIVE Unescape(_)
Unescape(s) ==
    IF Len(s) = 0 THEN <<>>
    ELSE IF StartsWith(s, AMP) THEN <<"&">> \o Unescape(SliceFrom(s, Len(AMP)))
    ELSE IF StartsWith(s, LT) THEN <<"<">> \o Unescape(SliceFrom(s, Len(LT)))
    ELSE IF StartsWith(s, GT) THEN <<">">> \o Unescape(SliceFrom(s, Len(GT)))
    ELSE <<s[1]>> \o Unescape(Tail(s))

\* s with each of its characters &, <, > written as its entity, once, and
\* every other character as it is
RECURSIVE EscapeOnce(_)
EscapeOnce(s) ==
    IF Len(s) = 0 THEN <<>>
    ELSE (CASE s[1] = "&" -> AMP
            [] s[1] = "<" -> LT
            [] s[1] = ">" -> GT
            [] OTHER -> <<s[1]>>) \o EscapeOnce(Tail(s))

\* the & at position k of s starts one of the three entities
StartsEntity(s, k) ==
    \E ent \in {AMP, LT, GT} : StartsWith(SliceFrom(s, k - 1), ent)

\* C13: every element of the output other than the list markers is a heading,
\* list-item or paragraph element whose text holds no raw < or >, in which
\* every & starts one of &amp; &lt; &gt;, and which is the content of an
\* input line (the end of the line without its trailing white space) with
\* each &, < and > escaped exactly once and nothing else changed.
C13_EscapedOnce ==
    htmlDone
        => \A k \in 1 .. Len(OutElements) :
              LET e == OutElements[k]
              IN  e \notin {UL_OPEN, UL_CLOSE}
                    => /\ IsContentElement(e)
                       /\ \A j \in 1 .. Len(Inner(e)) :
                             /\ Inner(e)[j] \notin {"<", ">"}
                             /\ Inner(e)[j] = "&" => StartsEntity(Inner(e), j)
                       /\ EscapeOnce(Unescape(Inner(e))) = Inner(e)
                       /\ \E n \in 1 .. Len(SplitLines(htmlText)) :
                             /\ Len(Unescape(Inner(e))) > 0
                             /\ EndsWith(TrimEnd(SplitLines(htmlText)[n]),
                                         Unescape(Inner(e)))

\* C13 witness: a line holding &, < and >, normalised to a paragraph with the
\* three characters escaped once each.
C13_Witness ==
    /\ htmlDone
    /\ htmlText = <<"&">> \o UL_OPEN \o <<" ">>
    /\ htmlOut = <<"<", "p", ">">> \o AMP \o LT \o <<"u", "l">> \o GT \o <<"<", "/", "p", ">">>

\* the elements k.. of els are well placed, given whether a list block is open
\* before element k and how many items it holds so far: a block opens only
\* when none is open, closes only when one is open and holds an item, a list
\* item comes only inside a block, and any other element only outside
RECURSIVE ListScan(_, _, _, _)
ListScan(els, k, open, items) ==
    IF k > Len(els) THEN open => items > 0
    ELSE IF els[k] = UL_OPEN THEN ~open /\ ListScan(els, k + 1, TRUE, 0)
    ELSE IF els[k] = UL_CLOSE THEN open /\ items > 0 /\ ListScan(els, k + 1, FALSE, 0)
    ELSE IF IsElementOf(els[k], <<"l", "i">>) THEN open /\ ListScan(els, k + 1, TRUE, items + 1)
    ELSE ~open /\ ListScan(els, k + 1, FALSE, 0)

\* the input line can have produced the content element e: a paragraph holds
\* the line without its trailing white space, a heading or list item the end
\* of a line that starts with its marker
Produces(line, e) ==
    LET content == Unescape(Inner(e))
    IN  /\ Len(content) > 0
        /\ EndsWith(TrimEnd(line), content)
        /\ IsElementOf(e, <<"p">>) => TrimEnd(line) = content
        /\ IsElementOf(e, <<"l", "i">>) => (StartsWith(line, <<"-">>) \/ StartsWith(line, <<"*">>))
        /\ (\E d \in {"1", "2", "3"} : IsElementOf(e, <<"h", d>>)) => StartsWith(line, <<"#">>)

\* the content elements k.. of els are produced, in order, by distinct lines
\* among lines n.. (the earliest line that fits is taken)
RECURSIVE InLineOrder(_, _, _, _)
InLineOrder(els, k, lines, n) ==
    IF k > Len(els) THEN TRUE
    ELSE IF n > Len(lines) THEN FALSE
    ELSE IF Produces(lines[n], els[k]) THEN InLineOrder(els, k + 1, lines, n + 1)
    ELSE InLineOrder(els, k, lines, n + 1)

\* C14: in the output of textToHtml the list markers alternate, open first; a
\* list item lies inside an open block, a block holds at least one item, no
\* heading or paragraph lies inside a block; and the content elements follow
\* the order of the input lines that produced them.
C14_ListStructure ==
    htmlDone
        => /\ ListScan(OutElements, 1, FALSE, 0)
           /\ \A k \in 1 .. Len(OutElements) :
                 OutElements[k] \in {UL_OPEN, UL_CLOSE} \/ IsContentElement(OutElements[k])
           /\ InLineOrder(SelectSeq(OutElements, IsContentElement), 1,
                          SplitLines(htmlText), 1)

\* C14 witness: two list items followed by a paragraph: one block with both
\* items, closed before the paragraph.
C14_Witness ==
    /\ htmlDone
    /\ htmlText = <<"-", " ", "a", "\n", "-", " ", "a", "\n", "a">>
    /\ OutElements = << UL_OPEN, Element(<<"l", "i">>, <<"a">>), Element(<<"l", "i">>, <<"a">>),
                        UL_CLOSE, Element(<<"p">>, <<"a">>) >>

\* C15 (as claimed): a record assembled without a --title has a title that
\* is not the empty string, whatever the source text.
C15_DerivedTitleNotEmpty ==
    (IsSome(Assembled) /\ opts.title = None) => Get(Assembled).title # <<>>

=============================================================================
